---- MODULE Spec2Model ----
(***************************************************************************)
(* Crestron shade integration: the REST client (CrestronAPI, api.py) and   *)
(* the polling coordinator (CrestronCoordinator, coordinator.py).          *)
(*                                                                         *)
(* Tasks are asyncio tasks on one event loop: the code between two awaits  *)
(* runs atomically, so one action is one such stretch of code.  A task     *)
(* parks at an await in pc:                                                *)
(*   "req"        a request of the operation fn is in flight               *)
(*   "sleep"      asyncio.sleep(RETRY_DELAY) of the retry wrapper          *)
(*   "lock"       waiting for _login_lock                                  *)
(*   "login_req"  the login request is in flight (_login_lock held)        *)
(*   "idle"       no call in progress; ret is the outcome of the last call *)
(* The hub is free to answer every request in any of the ways the client   *)
(* distinguishes.  Results and exceptions are named by strings.            *)
(***************************************************************************)
EXTENDS Integers, Sequences, FiniteSets, TLC

\* ---------------------------------------------------------------- bounds
NumTasks == 3
MaxTime == 2
MaxShades == 1
MaxConnErrors == 4
MaxStreak == 3
MaxFailedPolls == 1
MaxEntries == 2
CmdShades == 2
ConvMargin == 400
PctMargin == 50

\* ------------------------------------------------------ program constants
OPEN_VALUE == 65535
CLOSED_VALUE == 0
HA_OPEN_VALUE == 100
HA_CLOSED_VALUE == 0
MAX_RETRIES == 3
\* time.time() + 3600: the clock of the model counts in units of 3600 s
AUTH_LIFETIME == 1
max_connection_errors == 3

Tasks == 1 .. NumTasks
NoTask == 0
ShadeIds == 1 .. MaxShades
\* device positions the hub reports in a fetched snapshot
DevicePositions == {0, 32768, 65535}
\* percentages handed to set_shade_position; 25 is none the poll computes
\* from DevicePositions, so a cached 25 was written by a command
PctInputs == {0, 25, 100}

\* the ways the hub answers a request other than login:
\*   "ok"      200 with the expected body
\*   "empty"   200 with a body that yields the falsy result (no shade, a
\*             status other than "success", a body that is not a list)
\*   "401" "404" "500"   HTTP error statuses (500: any other error status)
\*   "conn"    aiohttp.ClientConnectionError / ServerDisconnectedError
\*   "timeout" asyncio.TimeoutError
\* and, to GET /shades only,
\*   "wrapped" 200 with the object {"shades": [...]} around the list
Answers == {"ok", "empty", "401", "404", "500", "conn", "timeout"}
\* the ways the hub answers the login request
LoginAnswers == {"ok_key", "ok_nokey", "http_err", "conn"}

WrappedFns == {"_get_shades", "_get_shade", "_set_shades_state", "_set_position", "_stop_shade"}
ClientOps == {"login", "ping", "get_shades", "get_shade", "set_shades_state", "set_position", "stop_shade"}
Commands == {"open_shade", "close_shade", "set_shade_position", "stop_shade_cmd"}
Exceptions == {"ApiError", "ApiAuthError", "ApiConnectionError", "ApiTimeoutError"}

\* a fetched snapshot: shade id -> device position, for the shades the hub lists
Snapshots == UNION {[S -> DevicePositions] : S \in SUBSET ShadeIds}
NoBody == << >>

VARIABLES
    auth_key,             \* CrestronAPI._auth_key: "None" or "key"
    auth_expiry,          \* CrestronAPI._auth_expiry
    now,                  \* time.time()
    login_lock,           \* CrestronAPI._login_lock: its holder, or NoTask
    api_shades,           \* CrestronAPI.shades: the client's own map of shades
    shades,               \* CrestronCoordinator._shades: id -> position (0..100 view)
    last_update_success,  \* CrestronCoordinator._last_update_success
    is_connected,         \* CrestronCoordinator._is_connected
    connection_errors,    \* CrestronCoordinator._connection_errors
    refresh_requested,    \* a refresh was requested (async_request_refresh) and no poll started since
    failed_polls,         \* history: the polls in a row, up to now, that ended with a
                          \* connection or timeout error (counted up to MaxStreak)
    polled_ids,           \* history: the ids of the list the last successful poll
                          \* fetched
    hass_data,            \* hass.data[DOMAIN]: the entry ids that have a coordinator stored
    services,             \* the four shade services are registered with hass.services
    task                  \* per task: the call in progress and its locals

vars == <<auth_key, auth_expiry, now, login_lock, api_shades, shades, last_update_success,
          is_connected, connection_errors, refresh_requested, failed_polls,
          polled_ids, hass_data, services, task>>

\* The state as one value, so that a stretch of code is a composition of
\* functions on it.
World ==
    [auth_key |-> auth_key, auth_expiry |-> auth_expiry, now |-> now,
     login_lock |-> login_lock, api_shades |-> api_shades, shades |-> shades,
     last_update_success |-> last_update_success, is_connected |-> is_connected,
     connection_errors |-> connection_errors,
     refresh_requested |-> refresh_requested, failed_polls |-> failed_polls,
     polled_ids |-> polled_ids, hass_data |-> hass_data, services |-> services,
     task |-> task]

Commit(w) ==
    /\ auth_key' = w.auth_key
    /\ auth_expiry' = w.auth_expiry
    /\ now' = w.now
    /\ login_lock' = w.login_lock
    /\ api_shades' = w.api_shades
    /\ shades' = w.shades
    /\ last_update_success' = w.last_update_success
    /\ is_connected' = w.is_connected
    /\ connection_errors' = w.connection_errors
    /\ refresh_requested' = w.refresh_requested
    /\ failed_polls' = w.failed_polls
    /\ polled_ids' = w.polled_ids
    /\ hass_data' = w.hass_data
    /\ services' = w.services
    /\ task' = w.task

\* A task with no call in progress.  The fields after ret are history of the
\* current call, kept for the properties:
\*   execs      executions of the operation in the current wrapper call
\*   logins     login requests sent during the current wrapper call, ping or login
\*   waited     the current call had to wait for _login_lock
\*   (execs, first, laterFail and only401 are kept for wrapper calls only)
\*   first      the hub's answer to the first attempt of the current wrapper call
\*   laterFail  some later answer (to an attempt or to a login) was not a success
\*   only401    every attempt answered so far was answered 401
\*   last       the most recent answer received
\*   loginAns   the most recent answer to a login request
\*   apires     what the client returned or raised to the coordinator command
\*   before     of a poll: the coordinator's fields when the poll started
IdleTask ==
    [top |-> "none", fn |-> "none", pc |-> "idle", retries |-> 0, arg |-> 0,
     pos |-> 0, ret |-> "none", body |-> NoBody,
     execs |-> 0, logins |-> 0, first |-> "none", laterFail |-> FALSE,
     only401 |-> TRUE, last |-> "none", loginAns |-> "none", apires |-> "none",
     waited |-> FALSE, before |-> << >>]

\* ------------------------------------------------------------ conversions
\* A round() that cuts the fraction off.
RoundHalfEven_Floor(n, d) == n \div d

\* Python's round(): to nearest, ties to even.  n >= 0, d > 0.
RoundHalfEven(n, d) ==
    LET q == n \div d
        r == n % d
    IN  IF 2 * r < d THEN q
        ELSE IF 2 * r > d THEN q + 1
        ELSE IF q % 2 = 0 THEN q ELSE q + 1

\* convert_position_to_ha with int() in the place of round().
convert_position_to_ha_Truncate(crestron_position) ==
    IF crestron_position <= CLOSED_VALUE THEN HA_CLOSED_VALUE
    ELSE IF crestron_position >= OPEN_VALUE THEN HA_OPEN_VALUE
    ELSE (crestron_position * HA_OPEN_VALUE) \div OPEN_VALUE

\* convert_position_to_ha on 16 bits instead of the range checks.
convert_position_to_ha_Wrap(crestron_position) ==
    RoundHalfEven((crestron_position % (OPEN_VALUE + 1)) * HA_OPEN_VALUE, OPEN_VALUE)

convert_position_to_ha(crestron_position) ==
    IF crestron_position <= CLOSED_VALUE THEN HA_CLOSED_VALUE
    ELSE IF crestron_position >= OPEN_VALUE THEN HA_OPEN_VALUE
    ELSE RoundHalfEven(crestron_position * HA_OPEN_VALUE, OPEN_VALUE)

\* convert_position_from_ha without the range checks.
convert_position_from_ha_NoClamp(ha_position) ==
    RoundHalfEven(ha_position * OPEN_VALUE, HA_OPEN_VALUE)

convert_position_from_ha(ha_position) ==
    IF ha_position <= HA_CLOSED_VALUE THEN CLOSED_VALUE
    ELSE IF ha_position >= HA_OPEN_VALUE THEN OPEN_VALUE
    ELSE RoundHalfEven(ha_position * OPEN_VALUE, HA_OPEN_VALUE)

\* ------------------------------------------------------------------ auth
\* CrestronAPI.has_shade
has_shade(w, shade_id) == shade_id \in DOMAIN w.api_shades

_is_auth_valid(w) == w.auth_key # "None" /\ w.now < w.auth_expiry


\* ------------------------------------------------------------ task steps
SetTask(w, t, rec) == [w EXCEPT !.task[t] = rec]

\* The top-level call of task t ends with r (a value or an exception).
Return(w, t, r) ==
    SetTask(w, t, [w.task[t] EXCEPT !.pc = "idle", !.ret = r, !.retries = 0, !.body = NoBody])

\* _execute_with_retry(func) up to the first await: retries = 0, no sleep,
\* func() sends its request.
StartWrapper(w, t, f) ==
    SetTask(w, t, [w.task[t] EXCEPT !.fn = f, !.retries = 0, !.pc = "req",
                                    !.execs = 1, !.logins = 0, !.first = "none",
                                    !.laterFail = FALSE, !.only401 = TRUE])

\* ping() up to its request.
StartPing(w, t) ==
    SetTask(w, t, [w.task[t] EXCEPT !.fn = "ping", !.retries = 0, !.pc = "req",
                                    !.execs = 1, !.logins = 0, !.first = "none",
                                    !.laterFail = FALSE, !.only401 = TRUE])

\* ------------------------------------------------------------ coordinator
\* CountConnectionError that only counts.
CountConnectionError_CountOnly(w) ==
    [w EXCEPT !.connection_errors = w.connection_errors + 1]

\* self._connection_errors += 1; at the threshold self._is_connected = False
CountConnectionError(w) ==
    LET n == w.connection_errors + 1
    IN  [w EXCEPT !.connection_errors = n,
                  !.is_connected = IF n >= max_connection_errors THEN FALSE ELSE @]

\* What _async_update_data handles as a connection or timeout error.
ConnectionFailures == {"ApiConnectionError", "ApiTimeoutError", "asyncio.TimeoutError"}

\* PollRaise that drops the cached shades when the poll fails.
PollRaise_ClearsCache(w, t, exc) ==
    LET w1 == [w EXCEPT !.last_update_success = FALSE, !.failed_polls = 0,
                        !.shades = << >>]
    IN  CASE exc = "ApiAuthError" ->
                Return([w1 EXCEPT !.is_connected = FALSE], t, "ConfigEntryAuthFailed")
          [] exc \in ConnectionFailures ->
                Return([CountConnectionError(w1) EXCEPT
                            !.failed_polls = IF w.failed_polls < MaxStreak
                                             THEN w.failed_polls + 1 ELSE MaxStreak],
                       t, "UpdateFailed")
          [] OTHER ->
                Return(w1, t, "UpdateFailed")

\* The except clauses of _async_update_data, in their order.  exc is the
\* exception that reached them; "asyncio.TimeoutError" is the one the
\* async_timeout block raises.
PollRaise(w, t, exc) ==
    LET w1 == [w EXCEPT !.last_update_success = FALSE, !.failed_polls = 0]
    IN  CASE exc = "ApiAuthError" ->
                Return([w1 EXCEPT !.is_connected = FALSE], t, "ConfigEntryAuthFailed")
          [] exc \in ConnectionFailures ->
                Return([CountConnectionError(w1) EXCEPT
                            !.failed_polls = IF w.failed_polls < MaxStreak
                                             THEN w.failed_polls + 1 ELSE MaxStreak],
                       t, "UpdateFailed")
          [] OTHER ->
                Return(w1, t, "UpdateFailed")

\* PollAfterGetShades that caches the device positions as fetched.
PollAfterGetShades_Raw(w, t, r) ==
    IF r \in Exceptions THEN PollRaise(w, t, r)
    ELSE LET b == w.task[t].body
         IN  Return([w EXCEPT !.shades = [id \in DOMAIN b |-> b[id]],
                              !.last_update_success = TRUE,
                              !.is_connected = TRUE,
                              !.connection_errors = 0,
                              !.failed_polls = 0,
                              !.polled_ids = DOMAIN b],
                    t, "data")

\* PollAfterGetShades that stores the fetched shades and nothing else.
PollAfterGetShades_KeepFlags(w, t, r) ==
    IF r \in Exceptions THEN PollRaise(w, t, r)
    ELSE LET b == w.task[t].body
         IN  Return([w EXCEPT !.shades = [id \in DOMAIN b |-> convert_position_to_ha(b[id])],
                              !.failed_polls = 0,
                              !.polled_ids = DOMAIN b],
                    t, "data")

\* PollAfterGetShades that merges the fetched shades into the cached map.
PollAfterGetShades_Merge(w, t, r) ==
    IF r \in Exceptions THEN PollRaise(w, t, r)
    ELSE LET b == w.task[t].body
         IN  Return([w EXCEPT !.shades = [id \in DOMAIN b \cup DOMAIN w.shades |->
                                            IF id \in DOMAIN b
                                            THEN convert_position_to_ha(b[id])
                                            ELSE w.shades[id]],
                              !.last_update_success = TRUE,
                              !.is_connected = TRUE,
                              !.connection_errors = 0,
                              !.failed_polls = 0,
                              !.polled_ids = DOMAIN b],
                    t, "data")

\* _async_update_data after api.get_shades() returned r or raised it.
PollAfterGetShades(w, t, r) ==
    IF r \in Exceptions THEN PollRaise(w, t, r)
    ELSE LET b == w.task[t].body
         IN  Return([w EXCEPT !.shades = [id \in DOMAIN b |-> convert_position_to_ha(b[id])],
                              !.last_update_success = TRUE,
                              !.is_connected = TRUE,
                              !.connection_errors = 0,
                              !.failed_polls = 0,
                              !.polled_ids = DOMAIN b],
                    t, "data")

\* PollAfterPing that fetches the shades whatever the ping reported.
PollAfterPing_FetchAnyway(w, t, ok) ==
    IF ok
    THEN StartWrapper([w EXCEPT !.connection_errors = 0, !.is_connected = TRUE],
                      t, "_get_shades")
    ELSE StartWrapper(CountConnectionError(w), t, "_get_shades")

\* _async_update_data after api.ping() returned ok.
PollAfterPing(w, t, ok) ==
    IF ok
    THEN StartWrapper([w EXCEPT !.connection_errors = 0, !.is_connected = TRUE],
                      t, "_get_shades")
    ELSE \* counted before the raise, again in the inner except clause, and a
         \* third time in the outer one
         PollRaise(CountConnectionError(CountConnectionError(w)), t, "ApiConnectionError")

\* PatchedPosition that writes the device units sent to the hub.
PatchedPosition_DeviceUnits(w, t) ==
    CASE w.task[t].top = "open_shade" -> OPEN_VALUE
      [] w.task[t].top = "close_shade" -> CLOSED_VALUE
      [] w.task[t].top = "set_shade_position" -> convert_position_from_ha(w.task[t].pos)
      [] OTHER -> w.shades[w.task[t].arg]

\* PatchedPosition with a stop that writes the closed position.
PatchedPosition_StopCloses(w, t) ==
    CASE w.task[t].top = "open_shade" -> HA_OPEN_VALUE
      [] w.task[t].top = "close_shade" -> HA_CLOSED_VALUE
      [] w.task[t].top = "set_shade_position" -> w.task[t].pos
      [] OTHER -> HA_CLOSED_VALUE

\* The value a successful command writes into the cached shade.
PatchedPosition(w, t) ==
    CASE w.task[t].top = "open_shade" -> HA_OPEN_VALUE
      [] w.task[t].top = "close_shade" -> HA_CLOSED_VALUE
      [] w.task[t].top = "set_shade_position" -> w.task[t].pos
      [] OTHER -> w.shades[w.task[t].arg]

\* CmdAfterApi that writes the shade into the cache whether it is cached or
\* not.
CmdAfterApi_Reinsert(w, t, r) ==
    LET id == w.task[t].arg
        w0 == SetTask(w, t, [w.task[t] EXCEPT !.apires = r])
    IN  CASE r \in {"True", "False"} ->
                LET w1 == IF r = "True" /\ w0.task[t].top # "stop_shade_cmd"
                          THEN [w0 EXCEPT !.shades =
                                    [i \in DOMAIN w0.shades \cup {id} |->
                                        IF i = id THEN PatchedPosition(w0, t)
                                        ELSE w0.shades[i]]]
                          ELSE w0
                IN  Return([w1 EXCEPT !.refresh_requested = TRUE], t, r)
          [] r = "ApiAuthError" ->
                Return([w0 EXCEPT !.refresh_requested = TRUE], t, "False")
          [] OTHER ->
                Return(w0, t, "False")

\* CmdAfterApi that leaves the cache to the next poll.
CmdAfterApi_NoPatch(w, t, r) ==
    LET w0 == SetTask(w, t, [w.task[t] EXCEPT !.apires = r])
    IN  CASE r \in {"True", "False"} ->
                Return([w0 EXCEPT !.refresh_requested = TRUE], t, r)
          [] r = "ApiAuthError" ->
                Return([w0 EXCEPT !.refresh_requested = TRUE], t, "False")
          [] OTHER ->
                Return(w0, t, "False")

\* CmdAfterApi that lets the client's exceptions through.
CmdAfterApi_Reraise(w, t, r) ==
    LET id == w.task[t].arg
        w0 == SetTask(w, t, [w.task[t] EXCEPT !.apires = r])
    IN  IF r = "True" /\ id \in DOMAIN w0.shades
        THEN Return([w0 EXCEPT !.shades[id] = PatchedPosition(w0, t),
                               !.refresh_requested = TRUE], t, r)
        ELSE Return(w0, t, r)

\* A coordinator command after the client call returned r or raised it.
CmdAfterApi(w, t, r) ==
    LET id == w.task[t].arg
        w0 == SetTask(w, t, [w.task[t] EXCEPT !.apires = r])
    IN  CASE r \in {"True", "False"} ->
                LET w1 == IF r = "True" /\ id \in DOMAIN w0.shades
                          THEN [w0 EXCEPT !.shades[id] = PatchedPosition(w0, t)]
                          ELSE w0
                IN  Return([w1 EXCEPT !.refresh_requested = TRUE], t, r)
          [] r = "ApiAuthError" ->
                Return([w0 EXCEPT !.refresh_requested = TRUE], t, "False")
          [] OTHER ->
                Return(w0, t, "False")

\* ----------------------------------------------------------------- client
\* A client method returned r or raised it to its caller.
\* The entity of shade.py calls the client itself and then asks for a
\* refresh, whatever the client returned.
AfterClientCall(w, t, r) ==
    CASE w.task[t].top \in Commands -> CmdAfterApi(w, t, r)
      [] w.task[t].top = "poll" -> PollAfterGetShades(w, t, r)
      [] w.task[t].top = "async_set_cover_position" ->
            Return([w EXCEPT !.refresh_requested = TRUE], t, "None")
      [] OTHER -> Return(w, t, r)

SetPositionCallers == {"set_position", "open_shade", "close_shade", "set_shade_position",
                       "async_set_cover_position"}

\* AfterWrapper whose set_position gives up when the check of the shade
\* raised.
AfterWrapper_WriteOnlyIfFound(w, t, r) ==
    CASE w.task[t].top \in SetPositionCallers /\ w.task[t].fn = "_get_shade" ->
            IF r = "shade" THEN StartWrapper(w, t, "_set_position")
            ELSE AfterClientCall(w, t, "False")
      [] w.task[t].top \in SetPositionCallers /\ w.task[t].fn = "_set_position" ->
            AfterClientCall(w, t, IF r \in Exceptions THEN "False" ELSE r)
      [] OTHER -> AfterClientCall(w, t, r)

\* _execute_with_retry returned r or raised it to the client method.
\* set_position: a missing shade ends the call, an error of the check does
\* not; the write's exceptions become False.
AfterWrapper(w, t, r) ==
    CASE w.task[t].top \in SetPositionCallers /\ w.task[t].fn = "_get_shade" ->
            IF r = "None" THEN AfterClientCall(w, t, "False")
            ELSE StartWrapper(w, t, "_set_position")
      [] w.task[t].top \in SetPositionCallers /\ w.task[t].fn = "_set_position" ->
            AfterClientCall(w, t, IF r \in Exceptions THEN "False" ELSE r)
      [] OTHER -> AfterClientCall(w, t, r)

\* ping() returned ok.
AfterPing(w, t, ok) ==
    IF w.task[t].top = "poll" THEN PollAfterPing(w, t, ok)
    ELSE Return(w, t, IF ok THEN "True" ELSE "False")

\* AfterLogin whose retry loop has no bound.
AfterLogin_Unbounded(w, t, r) ==
    CASE w.task[t].top = "login" -> Return(w, t, IF r = "ok" THEN "None" ELSE r)
      [] w.task[t].fn = "ping" -> AfterPing(w, t, r = "ok")
      [] OTHER ->
            IF r = "ok"
            THEN SetTask(w, t, [w.task[t] EXCEPT !.pc = "sleep"])
            ELSE AfterWrapper(w, t, "ApiAuthError")

\* login() returned ("ok") or raised r, to the caller it has in task t: the
\* task itself, ping, or the retry wrapper (whose loop then sleeps before
\* the next attempt, or is exhausted).
AfterLogin(w, t, r) ==
    CASE w.task[t].top = "login" -> Return(w, t, IF r = "ok" THEN "None" ELSE r)
      [] w.task[t].fn = "ping" -> AfterPing(w, t, r = "ok")
      [] OTHER ->
            IF r = "ok"
            THEN IF w.task[t].retries <= MAX_RETRIES
                 THEN SetTask(w, t, [w.task[t] EXCEPT !.pc = "sleep"])
                 ELSE AfterWrapper(w, t, "ApiError")
            ELSE AfterWrapper(w, t, "ApiAuthError")

\* LoginLocked without the second look at the key.
LoginLocked_NoRecheck(w, t) ==
    SetTask([w EXCEPT !.login_lock = t], t,
            [w.task[t] EXCEPT !.pc = "login_req", !.logins = @ + 1])

\* login() inside "async with self._login_lock", up to the request.
LoginLocked(w, t) ==
    IF _is_auth_valid(w)
    THEN AfterLogin(w, t, "ok")
    ELSE SetTask([w EXCEPT !.login_lock = t], t,
                 [w.task[t] EXCEPT !.pc = "login_req", !.logins = @ + 1])

\* login() that does not wait for the lock.
login_Unlocked(w, t) ==
    IF _is_auth_valid(w) THEN AfterLogin(w, t, "ok")
    ELSE SetTask([w EXCEPT !.login_lock = t], t,
                 [w.task[t] EXCEPT !.pc = "login_req", !.logins = @ + 1])

\* login() from its first line.
login(w, t) ==
    IF _is_auth_valid(w) THEN AfterLogin(w, t, "ok")
    ELSE IF w.login_lock = NoTask THEN LoginLocked(w, t)
    ELSE SetTask(w, t, [w.task[t] EXCEPT !.pc = "lock", !.waited = TRUE])

\* login() when the hub answers a.
LoginAnswered(w, t, a) ==
    LET w0 == SetTask([w EXCEPT !.login_lock = NoTask], t,
                      [w.task[t] EXCEPT !.loginAns = a, !.last = a,
                                        !.laterFail = @ \/ (w.task[t].fn \in WrappedFns /\ a # "ok_key")])
    IN  CASE a = "ok_key" ->
                AfterLogin([w0 EXCEPT !.auth_key = "key",
                                      !.auth_expiry = w.now + AUTH_LIFETIME], t, "ok")
          [] a = "ok_nokey" ->
                AfterLogin([w0 EXCEPT !.auth_key = "None",
                                      !.auth_expiry = w.now + AUTH_LIFETIME], t, "ok")
          [] a = "http_err" -> AfterLogin(w0, t, "ApiAuthError")
          [] OTHER -> AfterLogin(w0, t, "ApiConnectionError")

\* OnFuncResult that tries again after an ApiError too.
OnFuncResult_RetryApiError(w, t, r) ==
    LET n == w.task[t].retries + 1
        wn == SetTask(w, t, [w.task[t] EXCEPT !.retries = n])
    IN  CASE r = "ApiAuthError" -> login(wn, t)
          [] r = "ApiError" ->
                IF n > MAX_RETRIES THEN AfterWrapper(wn, t, r)
                ELSE SetTask(wn, t, [wn.task[t] EXCEPT !.pc = "sleep"])
          [] OTHER -> AfterWrapper(w, t, r)

\* OnFuncResult that does not count the attempt an ApiAuthError ended.
OnFuncResult_ForgetCount(w, t, r) ==
    LET n == w.task[t].retries + 1
        wn == SetTask(w, t, [w.task[t] EXCEPT !.retries = n])
    IN  CASE r = "ApiAuthError" -> login(w, t)
          [] r \in {"rawConn", "rawTimeout"} ->
                IF n > MAX_RETRIES
                THEN AfterWrapper(wn, t, IF r = "rawConn" THEN "ApiConnectionError"
                                         ELSE "ApiTimeoutError")
                ELSE SetTask(wn, t, [wn.task[t] EXCEPT !.pc = "sleep"])
          [] OTHER -> AfterWrapper(w, t, r)

\* The except clauses of _execute_with_retry; r is what func() returned or
\* raised.  "rawConn" and "rawTimeout" are the aiohttp connection errors and
\* asyncio.TimeoutError themselves, as opposed to the typed Api errors.
OnFuncResult(w, t, r) ==
    LET n == w.task[t].retries + 1
        wn == SetTask(w, t, [w.task[t] EXCEPT !.retries = n])
    IN  CASE r = "ApiAuthError" -> login(wn, t)
          [] r \in {"rawConn", "rawTimeout"} ->
                IF n > MAX_RETRIES
                THEN AfterWrapper(wn, t, IF r = "rawConn" THEN "ApiConnectionError"
                                         ELSE "ApiTimeoutError")
                ELSE SetTask(wn, t, [wn.task[t] EXCEPT !.pc = "sleep"])
          [] OTHER -> AfterWrapper(w, t, r)


\* ------------------------------------------------ the wrapped operations
\* Each gives, for the hub's answer o, what func() returns or raises to
\* _execute_with_retry (res) and whether it clears self._auth_key (clear).

\* The except clauses shared by _get_shades and _set_position, whose status
\* checks run inside the try block: whatever the block raises that is not an
\* aiohttp or timeout error, the Api errors it raises itself included, is
\* caught by "except Exception" and raised again as ApiError.
CatchAll(raised) ==
    CASE raised = "rawConn" -> "ApiConnectionError"
      [] raised = "rawTimeout" -> "ApiTimeoutError"
      [] raised \in Exceptions -> "ApiError"
      [] OTHER -> raised

_get_shades(o) ==
    LET raised == CASE o = "ok" -> "list"
                    [] o \in {"empty", "wrapped"} -> "[]"
                    [] o = "401" -> "ApiAuthError"
                    [] o = "conn" -> "rawConn"
                    [] o = "timeout" -> "rawTimeout"
                    [] OTHER -> "ApiError"
    IN  [res |-> CatchAll(raised), clear |-> FALSE]

_set_position(o) ==
    LET raised == CASE o = "ok" -> "True"
                    [] o = "401" -> "ApiAuthError"
                    [] o = "conn" -> "rawConn"
                    [] o = "timeout" -> "rawTimeout"
                    [] OTHER -> "False"
    IN  [res |-> CatchAll(raised), clear |-> FALSE]

_get_shade(o) ==
    CASE o = "ok" -> [res |-> "shade", clear |-> FALSE]
      [] o = "empty" -> [res |-> "None", clear |-> FALSE]
      [] o = "401" -> [res |-> "ApiAuthError", clear |-> TRUE]
      [] o = "404" -> [res |-> "None", clear |-> FALSE]
      [] o = "conn" -> [res |-> "ApiConnectionError", clear |-> FALSE]
      [] o = "timeout" -> [res |-> "ApiTimeoutError", clear |-> FALSE]
      [] OTHER -> [res |-> "ApiError", clear |-> FALSE]

_set_shades_state(o) ==
    CASE o = "ok" -> [res |-> "True", clear |-> FALSE]
      [] o = "empty" -> [res |-> "False", clear |-> FALSE]
      [] o = "401" -> [res |-> "ApiAuthError", clear |-> TRUE]
      [] o = "conn" -> [res |-> "ApiConnectionError", clear |-> FALSE]
      [] o = "timeout" -> [res |-> "ApiTimeoutError", clear |-> FALSE]
      [] OTHER -> [res |-> "ApiError", clear |-> FALSE]

_stop_shade(o) ==
    CASE o = "ok" -> [res |-> "True", clear |-> FALSE]
      [] o = "401" -> [res |-> "ApiAuthError", clear |-> TRUE]
      [] o = "conn" -> [res |-> "ApiConnectionError", clear |-> FALSE]
      [] o = "timeout" -> [res |-> "ApiTimeoutError", clear |-> FALSE]
      [] OTHER -> [res |-> "ApiError", clear |-> FALSE]

\* func() of the current wrapper call, for the answer o.
Func(f, o) ==
    CASE f = "_get_shades" -> _get_shades(o)
      [] f = "_get_shade" -> _get_shade(o)
      [] f = "_set_shades_state" -> _set_shades_state(o)
      [] f = "_set_position" -> _set_position(o)
      [] OTHER -> _stop_shade(o)

\* The request func() sends: method and path, and what its JSON body holds.
Request(f) ==
    CASE f = "_get_shades" -> [method |-> "GET", path |-> "/shades", json |-> "none"]
      [] f = "_get_shade" -> [method |-> "GET", path |-> "/shades/{id}", json |-> "none"]
      [] f = "_set_shades_state" -> [method |-> "POST", path |-> "/shades/setstate", json |-> "shades"]
      [] f = "_set_position" -> [method |-> "POST", path |-> "/shades/{id}/position", json |-> "position"]
      [] OTHER -> [method |-> "POST", path |-> "/shades/{id}/stop", json |-> "none"]

\* The position in the body of the write request of task t: what the caller
\* of CrestronAPI.set_position passed.
PositionSent(w, t) ==
    CASE w.task[t].top = "open_shade" -> OPEN_VALUE
      [] w.task[t].top = "close_shade" -> CLOSED_VALUE
      [] w.task[t].top = "set_shade_position" -> convert_position_from_ha(w.task[t].pos)
      [] OTHER -> w.task[t].pos

\* ping() that keeps the cached key when the request does not get through.
ping_KeepKey(w, t, o) ==
    CASE o \in {"ok", "empty"} -> AfterPing(w, t, TRUE)
      [] o = "401" -> login(w, t)
      [] OTHER -> AfterPing(w, t, FALSE)

\* ping() when the hub answers o.
ping(w, t, o) ==
    CASE o \in {"ok", "empty"} -> AfterPing(w, t, TRUE)
      [] o = "401" -> login(w, t)
      [] o \in {"conn", "timeout"} -> AfterPing([w EXCEPT !.auth_key = "None"], t, FALSE)
      [] OTHER -> AfterPing(w, t, FALSE)

\* The answers the client tells apart, per request: a 200 has a body only
\* where the client reads it.
AnswersFor(f) ==
    IF f = "_get_shades" THEN Answers \cup {"wrapped"}
    ELSE IF f \in {"_get_shade", "_set_shades_state"} THEN Answers
    ELSE Answers \ {"empty"}

\* The body of a 200 answer to GET /shades is a snapshot, bare or wrapped.
BodiesFor(f, o) ==
    IF f = "_get_shades" /\ o \in {"ok", "wrapped"} THEN Snapshots ELSE {NoBody}

\* The list get_shades returns for the result res of _get_shades on the
\* snapshot b: the shades parsed from the array, or the literal [].
ReturnedList(res, b) == IF res = "list" THEN b ELSE NoBody

\* ---------------------------------------------------------------- actions
\* The hub answers the request task t has in flight.
Respond(t, o, b) ==
    /\ task[t].pc = "req"
    /\ o \in AnswersFor(task[t].fn)
    /\ b \in BodiesFor(task[t].fn, o)
    /\ LET cur == task[t]
           IN  IF cur.fn = "ping"
           THEN Commit(ping(SetTask(World, t, [cur EXCEPT !.last = o]), t, o))
           ELSE LET out == Func(cur.fn, o)
                    w0 == SetTask(World, t,
                            [cur EXCEPT !.body = ReturnedList(out.res, b),
                                        !.last = o,
                                        !.first = IF @ = "none" THEN o ELSE @,
                                        !.laterFail = @ \/ (cur.first # "none" /\ o # "ok"),
                                        !.only401 = @ /\ o = "401"])
                    w1 == IF out.clear THEN [w0 EXCEPT !.auth_key = "None"] ELSE w0
                IN  Commit(OnFuncResult(w1, t, out.res))

\* asyncio.sleep(RETRY_DELAY) is over: the next attempt sends its request.
Wake(t) ==
    /\ task[t].pc = "sleep"
    /\ Commit(SetTask(World, t, [task[t] EXCEPT !.pc = "req", !.execs = @ + 1]))

\* A task waiting for _login_lock gets it.
LoginAcquire(t) ==
    /\ task[t].pc = "lock"
    /\ login_lock = NoTask
    /\ Commit(LoginLocked(World, t))

\* The hub answers the login request.
LoginRespond(t, a) ==
    /\ task[t].pc = "login_req"
    /\ a \in LoginAnswers
    /\ Commit(LoginAnswered(World, t, a))

\* async_timeout.timeout(30) cancels the poll at the await it is parked at;
\* the lock, if held, is released.
PollTimeout(t) ==
    /\ task[t].top = "poll"
    /\ task[t].pc \in {"req", "sleep", "lock", "login_req"}
    /\ LET w0 == IF login_lock = t THEN [World EXCEPT !.login_lock = NoTask] ELSE World
       IN  Commit(PollRaise(w0, t, "asyncio.TimeoutError"))

\* One validity period (3600 s) goes by.
Tick ==
    /\ now < MaxTime
    /\ now' = now + 1
    /\ UNCHANGED <<auth_key, auth_expiry, login_lock, api_shades, shades, last_update_success,
                   is_connected, connection_errors, refresh_requested,
                   failed_polls, polled_ids, hass_data, services, task>>

\* A new call of task t: its locals and history start afresh.
NewCall(t, op, id, p) ==
    SetTask(World, t, [IdleTask EXCEPT !.top = op, !.arg = id, !.pos = p])

\* A client method is called directly.
CallClient(t, op, id, p) ==
    /\ task[t].pc = "idle"
    /\ op \in ClientOps
    /\ LET w == NewCall(t, op, id, p)
       IN  CASE op = "login" -> Commit(login(w, t))
             [] op = "ping" -> Commit(StartPing(w, t))
             [] op = "get_shades" -> Commit(StartWrapper(w, t, "_get_shades"))
             [] op = "get_shade" -> Commit(StartWrapper(w, t, "_get_shade"))
             [] op = "set_shades_state" -> Commit(StartWrapper(w, t, "_set_shades_state"))
             [] op = "set_position" -> Commit(StartWrapper(w, t, "_get_shade"))
             [] OTHER -> Commit(StartWrapper(w, t, "_stop_shade"))

\* _async_update_data is called: the poll starts with the ping.
CallPoll(t) ==
    /\ task[t].pc = "idle"
    /\ connection_errors < MaxConnErrors
    /\ \A u \in Tasks : task[u].top = "poll" => task[u].pc = "idle"
    /\ LET w == NewCall(t, "poll", 0, 0)
           b == [errors |-> connection_errors, connected |-> is_connected,
                 failed |-> failed_polls, shades |-> shades]
       IN  Commit(StartPing(SetTask([w EXCEPT !.refresh_requested = FALSE], t,
                                    [w.task[t] EXCEPT !.before = b]), t))

\* CallCommand without the look into the cache.
CallCommand_NoCheck(t, op, id, p) ==
    /\ task[t].pc = "idle"
    /\ op \in Commands
    /\ LET w == NewCall(t, op, id, p)
       IN  IF op = "stop_shade_cmd"
           THEN Commit(StartWrapper(w, t, "_stop_shade"))
           ELSE Commit(StartWrapper(w, t, "_get_shade"))

\* A coordinator command is called with shade id and, for
\* set_shade_position, percentage p.
CallCommand(t, op, id, p) ==
    /\ task[t].pc = "idle"
    /\ op \in Commands
    /\ LET w == NewCall(t, op, id, p)
       IN  IF id \notin DOMAIN shades
           THEN Commit(Return(w, t, "False"))
           ELSE IF op = "stop_shade_cmd"
                THEN Commit(StartWrapper(w, t, "_stop_shade"))
                ELSE Commit(StartWrapper(w, t, "_get_shade"))

\* ------------------------------------------------------- specifications
Init ==
    /\ auth_key = "None"
    /\ auth_expiry = 0
    /\ now = 1
    /\ login_lock = NoTask
    /\ api_shades = << >>
    /\ shades = << >>
    /\ last_update_success = FALSE
    /\ is_connected = FALSE
    /\ connection_errors = 0
    /\ refresh_requested = FALSE
    /\ failed_polls = 0
    /\ polled_ids = {}
    /\ hass_data = {}
    /\ services = FALSE
    /\ task = [t \in Tasks |-> IdleTask]

\* the ids and percentages callers pass: the ids of the hub's shades and one
\* the hub never lists
ArgIds == 1 .. MaxShades + 1
CmdArgs(op) == IF op = "set_shade_position" THEN PctInputs ELSE {0}
ClientArgs(op) == IF op = "set_position" THEN {CLOSED_VALUE, OPEN_VALUE} ELSE {0}
ClientIds(op) == IF op \in {"get_shade", "set_position", "stop_shade"} THEN ArgIds ELSE {0}

\* The integration: one task polls and issues the commands.  The clock
\* stands here: to login() an expired key is a missing one, which this
\* specification reaches; keys expire in SpecClient and SpecLogin.  Polls
\* are followed up to the MaxFailedPolls-th in a row that fails on the
\* connection; what the coordinator does with more of them is SpecPoll.
Next ==
    \/ failed_polls < MaxFailedPolls /\ CallPoll(1)
    \/ \E op \in Commands, id \in ArgIds : \E p \in CmdArgs(op) : CallCommand(1, op, id, p)
    \/ \E o \in Answers : Respond(1, o, NoBody)
    \/ \E b \in Snapshots : Respond(1, "ok", b)
    \/ \E b \in Snapshots : Respond(1, "wrapped", b)
    \/ Wake(1)
    \/ \E a \in LoginAnswers : LoginRespond(1, a)
    \/ PollTimeout(1)

Spec == Init /\ [][Next]_vars


\* The coordinator polling on, whatever the outcome of the polls before.
\* A poll has no Wake step: ping has no retry loop, and no result of
\* _get_shades takes _execute_with_retry to its sleep.
NextPoll ==
    \/ CallPoll(1)
    \/ \E o \in Answers : Respond(1, o, NoBody)
    \/ \E b \in Snapshots : Respond(1, "ok", b)
    \/ \E b \in Snapshots : Respond(1, "wrapped", b)
    \/ \E a \in LoginAnswers : LoginRespond(1, a)
    \/ PollTimeout(1)

SpecPoll == Init /\ [][NextPoll]_vars

\* The client alone: one task calls its methods one after the other.
NextClient ==
    \/ \E op \in ClientOps : \E id \in ClientIds(op), p \in ClientArgs(op) :
            CallClient(1, op, id, p)
    \/ \E o \in Answers : Respond(1, o, NoBody)
    \/ \E b \in Snapshots : Respond(1, "ok", b)
    \/ \E b \in Snapshots : Respond(1, "wrapped", b)
    \/ Wake(1)
    \/ \E a \in LoginAnswers : LoginRespond(1, a)
    \/ Tick

SpecClient == Init /\ [][NextClient]_vars

\* The client with a hub that answers: every request in flight, to an
\* operation or to the login endpoint, is answered or fails, and the sleep
\* between two attempts ends.
HubAnswers ==
    \/ \E o \in Answers : Respond(1, o, NoBody)
    \/ \E b \in Snapshots : Respond(1, "ok", b)
    \/ \E b \in Snapshots : Respond(1, "wrapped", b)
    \/ \E a \in LoginAnswers : LoginRespond(1, a)

SpecRetry ==
    Init /\ [][NextClient]_vars /\ WF_vars(HubAnswers) /\ WF_vars(Wake(1))

\* Concurrent users of the session: every task calls login() again and
\* again, while keys are issued, refused and expire.
NextLogin ==
    \/ \E t \in Tasks : CallClient(t, "login", 0, 0)
    \/ \E t \in Tasks : LoginAcquire(t)
    \/ \E t \in Tasks, a \in LoginAnswers : LoginRespond(t, a)
    \/ Tick

SpecLogin == Init /\ [][NextLogin]_vars

\* The race on an empty session: every task calls login() once.  The race
\* is over long before a key's lifetime has passed, so the clock stands.
CallLoginOnce(t) ==
    /\ task[t].top = "none"
    /\ CallClient(t, "login", 0, 0)

NextRace ==
    \/ \E t \in Tasks : CallLoginOnce(t)
    \/ \E t \in Tasks : LoginAcquire(t)
    \/ \E t \in Tasks, a \in LoginAnswers : LoginRespond(t, a)

SpecRace == Init /\ [][NextRace]_vars


\* The commands on a filled cache: a poll has succeeded and cached CmdShades
\* shades; one task issues commands, on the cached ids and on one more.
CachedPositions == {convert_position_to_ha(d) : d \in DevicePositions}

InitCommands ==
    /\ auth_key = "None"
    /\ auth_expiry = 0
    /\ now = 1
    /\ login_lock = NoTask
    /\ api_shades = << >>
    /\ shades \in [1 .. CmdShades -> CachedPositions]
    /\ last_update_success = TRUE
    /\ is_connected = TRUE
    /\ connection_errors = 0
    /\ refresh_requested = FALSE
    /\ failed_polls = 0
    /\ polled_ids = DOMAIN shades
    /\ hass_data = {1}
    /\ services = TRUE
    /\ task = [t \in Tasks |-> IdleTask]

NextCommands ==
    \/ \E op \in Commands, id \in 1 .. CmdShades + 1 : \E p \in CmdArgs(op) :
            CallCommand(1, op, id, p)
    \/ \E o \in Answers : Respond(1, o, NoBody)
    \/ Wake(1)
    \/ \E a \in LoginAnswers : LoginRespond(1, a)

SpecCommands == InitCommands /\ [][NextCommands]_vars

\* The same with any integer for set_shade_position: the percentages of
\* PctInputs and one PctMargin below and one PctMargin above the range.
WideCmdArgs(op) ==
    IF op = "set_shade_position"
    THEN PctInputs \cup {HA_CLOSED_VALUE - PctMargin, HA_OPEN_VALUE + PctMargin}
    ELSE {0}

NextRange ==
    \/ \E op \in Commands, id \in 1 .. CmdShades + 1 : \E p \in WideCmdArgs(op) :
            CallCommand(1, op, id, p)
    \/ \E o \in Answers : Respond(1, o, NoBody)
    \/ Wake(1)
    \/ \E a \in LoginAnswers : LoginRespond(1, a)

SpecRange == InitCommands /\ [][NextRange]_vars


\* The conversions alone: a task calls one of them once, on an integer in
\* or up to ConvMargin outside its range; arg is the argument and pos the
\* position returned.
DeviceInputs == (CLOSED_VALUE - ConvMargin) .. (OPEN_VALUE + ConvMargin)
PercentInputs == (HA_CLOSED_VALUE - ConvMargin) .. (HA_OPEN_VALUE + ConvMargin)

CallConvertToHa(t, x) ==
    /\ task[t].top = "none"
    /\ Commit(SetTask(World, t, [IdleTask EXCEPT !.top = "convert_position_to_ha",
                                                 !.arg = x,
                                                 !.pos = convert_position_to_ha(x)]))

CallConvertFromHa(t, x) ==
    /\ task[t].top = "none"
    /\ Commit(SetTask(World, t, [IdleTask EXCEPT !.top = "convert_position_from_ha",
                                                 !.arg = x,
                                                 !.pos = convert_position_from_ha(x)]))

NextConvert ==
    /\ task[1].top = "none"
    /\ \/ \E x \in DeviceInputs : CallConvertToHa(1, x)
       \/ \E x \in PercentInputs : CallConvertFromHa(1, x)

SpecConvert == Init /\ [][NextConvert]_vars


\* A poll and a command that overlap: task 1 polls, task 2 issues commands,
\* on a filled cache.  But for the first call, a call starts while a call
\* of the other task is in flight, so that any two calls that have both
\* completed, one of each task, were in flight together.  The hub answers
\* with a success or with an error status; what logins, retries and
\* connection errors do to one call is in Spec and SpecClient.
OverlapAnswers == {"ok", "empty", "500"}
PollInFlight == \E t \in Tasks : task[t].top = "poll" /\ task[t].pc # "idle"
CommandInFlight == \E t \in Tasks : task[t].top \in Commands /\ task[t].pc # "idle"
NothingCalled == \A t \in Tasks : task[t].top = "none"

NextOverlap ==
    \/ /\ CommandInFlight \/ NothingCalled
       /\ failed_polls < MaxFailedPolls
       /\ CallPoll(1)
    \/ /\ PollInFlight \/ NothingCalled
       /\ \E op \in Commands, id \in ArgIds : \E p \in CmdArgs(op) : CallCommand(2, op, id, p)
    \/ \E t \in {1, 2}, o \in OverlapAnswers : Respond(t, o, NoBody)
    \/ \E b \in Snapshots : Respond(1, "ok", b)
    \/ PollTimeout(1)

\* a poll has succeeded and cached the shades of ShadeIds
InitOverlap ==
    /\ auth_key = "None"
    /\ auth_expiry = 0
    /\ now = 1
    /\ login_lock = NoTask
    /\ api_shades = << >>
    /\ shades \in [ShadeIds -> CachedPositions]
    /\ last_update_success = TRUE
    /\ is_connected = TRUE
    /\ connection_errors = 0
    /\ refresh_requested = FALSE
    /\ failed_polls = 0
    /\ polled_ids = DOMAIN shades
    /\ hass_data = {1}
    /\ services = TRUE
    /\ task = [t \in Tasks |-> IdleTask]

SpecOverlap == InitOverlap /\ [][NextOverlap]_vars


\* Setting up and unloading config entries.  Home Assistant sets up an
\* entry that is not loaded and unloads one that is; the calls for different
\* entries run as tasks of one event loop and interleave at their awaits.
\* The setups followed here are those that succeed.
Entries == 1 .. MaxEntries

EntryBusy(e) ==
    \E t \in Tasks : /\ task[t].pc # "idle"
                     /\ task[t].top \in {"async_setup_entry", "async_unload_entry"}
                     /\ task[t].arg = e

\* unregistering: the services that are there are removed
RemoveServices(w) == [w EXCEPT !.services = FALSE]

\* register_services(hass)
register_services(w) == [w EXCEPT !.services = TRUE]

\* async_setup_entry up to 'await async_forward_entry_setups': the client
\* answered, the first refresh succeeded, the coordinator is stored.
SetupStore(t, e) ==
    /\ task[t].pc = "idle"
    /\ e \notin hass_data
    /\ ~EntryBusy(e)
    /\ LET w == NewCall(t, "async_setup_entry", e, 0)
       IN  Commit(SetTask([w EXCEPT !.hass_data = @ \cup {e}], t,
                          [w.task[t] EXCEPT !.pc = "forward"]))

\* The platforms are set up: the rest of async_setup_entry.
SetupForwarded(t) ==
    /\ task[t].top = "async_setup_entry"
    /\ task[t].pc = "forward"
    /\ LET w == IF Cardinality(hass_data) = 1 THEN register_services(World) ELSE World
       IN  Commit(Return(w, t, "True"))

\* async_unload_entry up to 'await async_unload_platforms'.
UnloadStart(t, e) ==
    /\ task[t].pc = "idle"
    /\ e \in hass_data
    /\ ~EntryBusy(e)
    /\ LET w == NewCall(t, "async_unload_entry", e, 0)
       IN  Commit(SetTask(w, t, [w.task[t] EXCEPT !.pc = "unload"]))

\* async_unload_platforms returned unload_ok: the rest of async_unload_entry.
UnloadDone(t, unload_ok) ==
    /\ task[t].top = "async_unload_entry"
    /\ task[t].pc = "unload"
    /\ IF unload_ok
       THEN LET w1 == [World EXCEPT !.hass_data = @ \ {task[t].arg}]
                w2 == IF w1.hass_data = {} THEN RemoveServices(w1) ELSE w1
            IN  Commit(Return(w2, t, "True"))
       ELSE Commit(Return(World, t, "False"))

NextSetup ==
    \/ \E t \in Tasks, e \in Entries : SetupStore(t, e)
    \/ \E t \in Tasks : SetupForwarded(t)
    \/ \E t \in Tasks, e \in Entries : UnloadStart(t, e)
    \/ \E t \in Tasks, ok \in BOOLEAN : UnloadDone(t, ok)

SpecSetup == Init /\ [][NextSetup]_vars


\* The cover entities: Home Assistant asks a cover to move to a percentage.
\* The entity of cover.py goes through the coordinator, the entity of
\* shade.py calls the client of the coordinator itself.
CoverSetPosition(t, id, p) == CallCommand(t, "set_shade_position", id, p)

ShadeSetPosition(t, id, p) ==
    /\ task[t].pc = "idle"
    /\ Commit(StartWrapper(NewCall(t, "async_set_cover_position", id, p), t, "_get_shade"))

NextEntity ==
    \/ \E id \in ArgIds, p \in PctInputs : CoverSetPosition(1, id, p)
    \/ \E id \in ArgIds, p \in PctInputs : ShadeSetPosition(1, id, p)
    \/ \E o \in Answers : Respond(1, o, NoBody)
    \/ Wake(1)
    \/ \E a \in LoginAnswers : LoginRespond(1, a)

SpecEntity == InitOverlap /\ [][NextEntity]_vars


\* ------------------------------------------------------------ properties
LoginsInFlight == {t \in Tasks : task[t].pc = "login_req"}

\* C1: however many tasks are in login() and whatever the hub answers, at
\* most one login request is in flight; its sender holds _login_lock.
C1_OneLoginInFlight ==
    /\ Cardinality(LoginsInFlight) <= 1
    /\ \A t \in LoginsInFlight : login_lock = t

\* a login request in flight while two other tasks wait for the lock
C1_Witness ==
    /\ LoginsInFlight # {}
    /\ Cardinality({t \in Tasks : task[t].pc = "lock"}) >= 2

RECURSIVE SumLogins(_)
SumLogins(S) ==
    IF S = {} THEN 0
    ELSE LET t == CHOOSE x \in S : TRUE
         IN  task[t].logins + SumLogins(S \ {t})

RaceOver == \A t \in Tasks : task[t].top = "login" /\ task[t].pc = "idle"
OnlyKeysAnswered == \A t \in Tasks : task[t].loginAns \in {"none", "ok_key"}

\* C2: when the tasks race login() on a session without a key and the hub
\* answers with a key, one login request is sent in total: never a second
\* one, and every caller has returned normally once the race is over.
C2_OneLoginRequest ==
    OnlyKeysAnswered =>
        /\ SumLogins(Tasks) <= 1
        /\ RaceOver => /\ SumLogins(Tasks) = 1
                       /\ \A t \in Tasks : task[t].ret = "None"

\* the race is over, one request was sent and answered with a key, and the
\* other callers waited for the lock and then returned without a request
C2_Witness ==
    /\ RaceOver
    /\ OnlyKeysAnswered
    /\ SumLogins(Tasks) = 1
    /\ Cardinality({t \in Tasks : task[t].waited /\ task[t].logins = 0
                                  /\ task[t].ret = "None"}) = NumTasks - 1


\* the client methods that run their operation through _execute_with_retry
WrapperOps == {"get_shades", "get_shade", "set_shades_state", "set_position", "stop_shade"}
Finished(t) == task[t].pc = "idle" /\ task[t].ret # "none"
SuccessResult(op) ==
    CASE op = "get_shades" -> "list"
      [] op = "get_shade" -> "shade"
      [] OTHER -> "True"

\* C3: a wrapped client call whose first attempt is answered 401 and whose
\* later requests are all answered successfully sends one login request
\* and returns its success result.
C3_RetryOnceThenSucceed ==
    \A t \in Tasks :
        (Finished(t) /\ task[t].top \in WrapperOps
            /\ task[t].first = "401" /\ ~task[t].laterFail)
        => (task[t].logins = 1 /\ task[t].ret = SuccessResult(task[t].top))

\* C4: a poll whose shade fetch is answered 401 at every attempt ends in
\* the needs-reauthentication outcome.
C4_Persistent401NeedsReauth ==
    \A t \in Tasks :
        (Finished(t) /\ task[t].top = "poll" /\ task[t].fn = "_get_shades"
            /\ task[t].first = "401" /\ task[t].only401)
        => task[t].ret = "ConfigEntryAuthFailed"

\* C5: when a request of the client is answered 401, the cached key is no
\* longer valid afterwards.
C5_UnauthorizedInvalidatesKey ==
    [][\A t \in Tasks :
          (task[t].pc = "req" /\ task'[t] # task[t] /\ task'[t].last = "401")
          => (auth_key' = "None" \/ ~(now' < auth_expiry'))]_vars

\* C6 as claimed: a wrapper call executes its operation at most 3 times.
C6_AtMostThreeExecutions ==
    \A t \in Tasks : task[t].execs <= 3

\* C6: a wrapper call executes its operation at most MAX_RETRIES + 1 = 4
\* times, the first attempt and MAX_RETRIES retries.
C6_AtMostRetriesPlusOne ==
    \A t \in Tasks : task[t].execs <= MAX_RETRIES + 1

\* a wrapper call that used all its attempts and gave up
C6_Witness ==
    \E t \in Tasks :
        /\ Finished(t)
        /\ task[t].top \in WrapperOps
        /\ task[t].execs = MAX_RETRIES + 1
        /\ task[t].ret = "ApiError"

\* C7: a connection reset or timeout is tried again: the typed error is
\* raised only with the attempts used up, and one such failure followed by
\* success makes the call succeed.
C7_ConnectionErrorsRetried ==
    \A t \in Tasks :
        (Finished(t) /\ task[t].top \in {"get_shades", "get_shade", "set_shades_state", "stop_shade"})
        => /\ task[t].ret \in {"ApiConnectionError", "ApiTimeoutError"}
                => task[t].execs = MAX_RETRIES + 1
           /\ (task[t].first \in {"conn", "timeout"} /\ ~task[t].laterFail)
                => task[t].ret = SuccessResult(task[t].top)

HttpErrorFirst(t) ==
    Finished(t) /\ task[t].top \in WrapperOps /\ task[t].first \in {"404", "500"}

\* C8 as claimed: an HTTP error status other than 401 ends the call with
\* ApiError after one execution and no login request.
C8_HttpErrorRaisesApiError ==
    \A t \in Tasks :
        HttpErrorFirst(t)
        => (task[t].execs = 1 /\ task[t].logins = 0 /\ task[t].ret = "ApiError")

\* how each client method ends on an HTTP error status other than 401
ResultOnHttpError(t) ==
    CASE task[t].top = "set_position" -> "False"
      [] task[t].top = "get_shade" /\ task[t].first = "404" -> "None"
      [] OTHER -> "ApiError"

\* C8: an HTTP error status other than 401 ends the wrapper call after one
\* execution and no login request; get_shades, set_shades_state and
\* stop_shade raise ApiError, get_shade raises it too but returns None on
\* 404, and set_position returns False.
C8_HttpErrorNotRetried ==
    \A t \in Tasks :
        HttpErrorFirst(t)
        => (task[t].execs = 1 /\ task[t].logins = 0
            /\ task[t].ret = ResultOnHttpError(t))

\* each way of ending on an HTTP error has happened
C8_Witness ==
    \E t \in Tasks :
        /\ HttpErrorFirst(t)
        /\ task[t].top = "set_position"
        /\ task[t].fn = "_set_position"
        /\ task[t].first = "500"
        /\ task[t].ret = "False"

\* C9: a command called with a shade id that is not in the cache returns
\* False in the same step: no request is sent (the task does not come to
\* wait for an answer), no refresh is requested, cache and session stay as
\* they are.
C9_UnknownShade ==
    [][\A t \in Tasks :
          (task[t].pc = "idle" /\ task'[t] # task[t]
              /\ task'[t].top \in Commands /\ task'[t].arg \notin DOMAIN shades)
          => /\ task'[t].pc = "idle"
             /\ task'[t].ret = "False"
             /\ task'[t].execs = 0 /\ task'[t].logins = 0
             /\ UNCHANGED <<shades, refresh_requested, auth_key, auth_expiry,
                            login_lock, last_update_success, is_connected,
                            connection_errors>>]_vars

\* a command on an unknown id has returned False, with another shade in the
\* cache and no refresh requested
C9_Witness ==
    \E t \in Tasks :
        /\ shades # << >>
        /\ ~refresh_requested
        /\ task[t].top \in Commands
        /\ task[t].pc = "idle"
        /\ task[t].arg \notin DOMAIN shades
        /\ task[t].execs = 0
        /\ task[t].ret = "False"

\* C10: a finished command has returned a boolean, and True only when the
\* client returned True.
C10_CommandsReturnBool ==
    \A t \in Tasks :
        (task[t].top \in Commands /\ task[t].pc = "idle")
        => /\ task[t].ret \in {"True", "False"}
           /\ task[t].ret = "True" => task[t].apires = "True"

\* a command has swallowed an exception of the client
C10_Witness ==
    \E t \in Tasks :
        /\ task[t].top = "stop_shade_cmd"
        /\ task[t].pc = "idle"
        /\ task[t].apires = "ApiAuthError"
        /\ task[t].ret = "False"

\* The hub answers the poll's GET /shades with 200 and the snapshot b.
PollFetched(t, b) ==
    /\ task[t].top = "poll"
    /\ task[t].fn = "_get_shades"
    /\ Respond(t, "ok", b)

\* C11: a successful poll replaces the cached shade map by the fetched
\* snapshot: every fetched shade is cached with its fetched position (in the
\* 0..100 view), no other id is cached, whatever the cache held before, and
\* the consecutive-failure counter is 0.
C11_PollReplacesCache ==
    [][\A t \in Tasks, b \in Snapshots :
          PollFetched(t, b)
          => /\ task'[t].pc = "idle" /\ task'[t].ret = "data"
             /\ \A id \in DOMAIN b :
                    id \in DOMAIN shades' /\ shades'[id] = convert_position_to_ha(b[id])
             /\ \A id \in DOMAIN shades' : id \in DOMAIN b
             /\ connection_errors' = 0]_vars

\* a poll has succeeded whose snapshot lacks a shade that was cached with a
\* position a command had written
C11_Witness ==
    \E t \in Tasks, id \in ShadeIds :
        /\ task[t].top = "poll" /\ task[t].pc = "idle" /\ task[t].ret = "data"
        /\ id \in DOMAIN task[t].before.shades
        /\ task[t].before.shades[id] = 25
        /\ id \notin DOMAIN shades
        /\ connection_errors = 0

\* The poll of task t ends in this step with a connection or timeout error.
PollFailsOnConnection(t) ==
    /\ task[t].top = "poll"
    /\ task[t].pc # "idle"
    /\ task'[t].pc = "idle"
    /\ task'[t].ret = "UpdateFailed"
    /\ failed_polls' > 0

\* C12: a poll that fails with a connection or timeout error leaves the
\* consecutive-failure counter one above what it was when the poll started,
\* and a coordinator that reported connected then still does unless this was
\* at least the third such poll in a row.
C12_FailureCountedOnce ==
    [][\A t \in Tasks :
          PollFailsOnConnection(t)
          => /\ connection_errors' = task[t].before.errors + 1
             /\ (task[t].before.connected /\ failed_polls' < max_connection_errors)
                    => is_connected']_vars

\* C13: when the last max_connection_errors polls, or more, each failed with
\* a connection or timeout error, the coordinator reports disconnected.
C13_DisconnectedAfterThreeFailures ==
    \A t \in Tasks :
        (task[t].top = "poll" /\ task[t].pc = "idle"
            /\ failed_polls >= max_connection_errors)
        => ~is_connected

\* The poll of task t ends in this step with the fetched data.
PollSucceeds(t) ==
    /\ task[t].top = "poll"
    /\ task[t].pc # "idle"
    /\ task'[t].pc = "idle"
    /\ task'[t].ret = "data"

\* C14: however many polls in a row failed with connection or timeout
\* errors, the poll that succeeds next leaves is_connected and
\* last_update_success true and the consecutive-failure counter 0.
C14_RecoversOnSuccess ==
    [][\A t \in Tasks :
          (PollSucceeds(t) /\ failed_polls > 0)
          => /\ is_connected'
             /\ last_update_success'
             /\ connection_errors' = 0]_vars

\* a poll has succeeded that started disconnected, after
\* max_connection_errors failed polls in a row
C14_Witness ==
    \E t \in Tasks :
        /\ task[t].top = "poll" /\ task[t].pc = "idle" /\ task[t].ret = "data"
        /\ task[t].before.failed >= max_connection_errors
        /\ task[t].before.errors >= max_connection_errors
        /\ ~task[t].before.connected
        /\ is_connected /\ last_update_success /\ connection_errors = 0

\* The command of task t returns True in this step.
CommandSucceeds(t) ==
    /\ task[t].top \in Commands
    /\ task[t].pc # "idle"
    /\ task'[t].pc = "idle"
    /\ task'[t].ret = "True"

\* C15: when open_shade, close_shade or set_shade_position(p) returns True
\* for a cached shade, that shade is cached with position 100, 0 or p, every
\* other cached shade is as it was, and a refresh is requested.
C15_OptimisticPatch ==
    [][\A t \in Tasks :
          (CommandSucceeds(t) /\ task[t].top # "stop_shade_cmd"
              /\ task[t].arg \in DOMAIN shades)
          => /\ DOMAIN shades' = DOMAIN shades
             /\ shades'[task[t].arg] =
                    CASE task[t].top = "open_shade" -> 100
                      [] task[t].top = "close_shade" -> 0
                      [] OTHER -> task[t].pos
             /\ \A id \in DOMAIN shades \ {task[t].arg} : shades'[id] = shades[id]
             /\ refresh_requested']_vars

\* set_shade_position(id, 25) has returned True: the shade is cached at 25
\* beside another shade at another position, and a refresh is requested
C15_Witness ==
    \E t \in Tasks, other \in DOMAIN shades :
        /\ task[t].top = "set_shade_position" /\ task[t].pc = "idle"
        /\ task[t].ret = "True"
        /\ task[t].pos = 25
        /\ shades[task[t].arg] = 25
        /\ other # task[t].arg /\ shades[other] = 100
        /\ refresh_requested

ToHaCalls == {t \in Tasks : task[t].top = "convert_position_to_ha"}
FromHaCalls == {t \in Tasks : task[t].top = "convert_position_from_ha"}

\* C17: the conversions are exact at the ends of the ranges (0 -> 0,
\* 65535 -> 100, 0 -> 0, 100 -> 65535), and for every integer argument,
\* outside the range too, the result is in 0..100 and 0..65535.
C17_ExactAndInRange ==
    /\ \A t \in ToHaCalls :
          /\ task[t].pos \in 0 .. 100
          /\ task[t].arg = 0 => task[t].pos = 0
          /\ task[t].arg = 65535 => task[t].pos = 100
    /\ \A t \in FromHaCalls :
          /\ task[t].pos \in 0 .. 65535
          /\ task[t].arg = 0 => task[t].pos = 0
          /\ task[t].arg = 100 => task[t].pos = 65535

\* a percentage so far above the range that its product is above 65535
C17_Witness ==
    \E t \in FromHaCalls :
        /\ task[t].arg > HA_OPEN_VALUE
        /\ task[t].arg * OPEN_VALUE > (OPEN_VALUE + 1) * HA_OPEN_VALUE
        /\ task[t].pos = 65535

\* C18: for pct in 0..100, with d = convert_position_from_ha(pct):
\* convert_position_from_ha(convert_position_to_ha(d)) = d.
C18_RoundTrip ==
    \A t \in FromHaCalls :
        task[t].arg \in 0 .. 100
        => convert_position_from_ha(convert_position_to_ha(task[t].pos)) = task[t].pos

\* 33 per cent: 21626.55 device units, rounded up
C18_Witness ==
    \E t \in FromHaCalls :
        /\ task[t].arg = 33
        /\ task[t].pos = 21627
        /\ convert_position_to_ha(task[t].pos) = 33

\* C19: both conversions are monotonic non-decreasing over the integers,
\* across the ends of the ranges and where round() meets a tie: f(a) <= f(a + 1)
\* for every a, which over the integers is a <= b => f(a) <= f(b).
C19_Monotonic ==
    /\ \A t \in ToHaCalls : task[t].pos <= convert_position_to_ha(task[t].arg + 1)
    /\ \A t \in FromHaCalls : task[t].pos <= convert_position_from_ha(task[t].arg + 1)

\* 30 per cent is the tie 19660.5, which round() takes down to the even 19660
C19_Witness ==
    \E t \in FromHaCalls :
        /\ task[t].arg = 30
        /\ 2 * ((task[t].arg * OPEN_VALUE) % HA_OPEN_VALUE) = HA_OPEN_VALUE
        /\ task[t].pos = 19660

\* C20: after a successful poll every fetched shade is cached with
\* convert_position_to_ha of its device position in the snapshot; the device
\* positions 0, 32768 and 65535 are cached as 0, 50 and 100.
C20_CachedPercent ==
    [][\A t \in Tasks, b \in Snapshots :
          PollFetched(t, b)
          => \A id \in DOMAIN b :
                /\ shades'[id] = convert_position_to_ha(b[id])
                /\ b[id] = 0 => shades'[id] = 0
                /\ b[id] = 32768 => shades'[id] = 50
                /\ b[id] = 65535 => shades'[id] = 100]_vars

\* a poll has succeeded and cached a shade at 50, which among the positions
\* the model writes is that of the device position 32768 alone
C20_Witness ==
    \E t \in Tasks, id \in ShadeIds :
        /\ task[t].top = "poll" /\ task[t].pc = "idle" /\ task[t].ret = "data"
        /\ id \in DOMAIN shades
        /\ shades[id] = 50
        /\ 50 \notin PctInputs

\* C21: every position the coordinator caches is within 0..100, whatever
\* polls and commands came before, set_shade_position with a percentage
\* below 0 or above 100 included.
C21_CachedPositionInRange ==
    \A id \in DOMAIN shades : shades[id] \in HA_CLOSED_VALUE .. HA_OPEN_VALUE

\* The hub answers the GET /shades of task t with 200 and the snapshot b.
ClientFetched(t, b) ==
    /\ task[t].fn = "_get_shades"
    /\ Respond(t, "ok", b)

\* C22: after the client has fetched shades, CrestronAPI.has_shade(id) is
\* true for every fetched id; after a state-changing call of the client has
\* succeeded, the client's map holds the target shade with the position
\* that was sent.
C22_ClientCacheFilled ==
    [][\A t \in Tasks :
          /\ \A b \in Snapshots :
                ClientFetched(t, b)
                => \A id \in DOMAIN b : has_shade([api_shades |-> api_shades'], id)
          /\ (task[t].top = "set_position" /\ task[t].pc # "idle"
                  /\ task'[t].pc = "idle" /\ task'[t].ret = "True")
             => /\ has_shade([api_shades |-> api_shades'], task[t].arg)
                /\ api_shades'[task[t].arg] = task[t].pos]_vars

\* C23: login() ends with ApiAuthError when the login request is answered
\* with an error status and when it is answered 200 with a body without
\* key; when it has completed normally a key is stored.
C23_LoginWithoutKeyFails ==
    \A t \in Tasks :
        (task[t].top = "login" /\ task[t].pc = "idle")
        => /\ task[t].loginAns \in {"http_err", "ok_nokey"} => task[t].ret = "ApiAuthError"
           /\ task[t].ret = "None" => auth_key # "None"

\* The hub answers the GET /shades of task t with 200 and the snapshot b
\* inside an object {"shades": [...]}.
ClientFetchedWrapped(t, b) ==
    /\ task[t].fn = "_get_shades"
    /\ Respond(t, "wrapped", b)

\* C24: get_shades returns the shades of the snapshot both when the body is
\* the bare array and when it is the object {"shades": [...]} around it.
C24_BothShapesAccepted ==
    [][\A t \in Tasks, b \in Snapshots :
          /\ (task[t].top = "get_shades" /\ ClientFetched(t, b))
             => ReturnedList(task'[t].ret, b) = b
          /\ (task[t].top = "get_shades" /\ ClientFetchedWrapped(t, b))
             => ReturnedList(task'[t].ret, b) = b]_vars

\* C25: a GET /shades answered 200 with a body of an unexpected shape is a
\* failed operation: it is tried once, the poll that made it fails and the
\* cached shade map stays as it was.
C25_MalformedFetchFailsPoll ==
    [][\A t \in Tasks :
          (task[t].top = "poll" /\ task[t].fn = "_get_shades"
              /\ Respond(t, "empty", NoBody))
          => /\ task'[t].pc = "idle"
             /\ task'[t].execs = 1
             /\ task'[t].ret = "UpdateFailed"
             /\ shades' = shades]_vars

\* Task t's last call is a poll that returned the data.
PollDone(t) == task[t].top = "poll" /\ task[t].pc = "idle" /\ task[t].ret = "data"

\* Task t's last call is a command that wrote a position and returned True.
WriteDone(t) ==
    /\ task[t].top \in Commands \ {"stop_shade_cmd"}
    /\ task[t].pc = "idle"
    /\ task[t].ret = "True"

PositionWriteInFlight(t) ==
    /\ task[t].top \in SetPositionCallers
    /\ task[t].fn = "_set_position"
    /\ task[t].pc = "req"
C27_WriteCarriesFullList ==
    \A t \in Tasks :
        PositionWriteInFlight(t)
        => /\ Request(task[t].fn).path = "/shades/setstate"
           /\ Request(task[t].fn).json = "shades"

PollFails(t) ==
    /\ task[t].top = "poll"
    /\ task[t].pc # "idle"
    /\ task'[t].pc = "idle"
    /\ task'[t].ret # "data"

CommandRefused(t) ==
    /\ task'[t] # task[t]
    /\ task[t].top \in Commands \/ task[t].pc = "idle"
    /\ task'[t].top \in Commands
    /\ task'[t].pc = "idle"
    /\ task'[t].ret = "False"

\* C28: the cached shade map changes only in the step that ends a poll with
\* its data or a command with True; a poll that ends any other way, a command
\* that returns False and a command on an id that is not cached leave the map
\* exactly as it was.
C28_CacheFrame ==
    [][/\ shades' # shades
            => \E t \in Tasks : PollSucceeds(t) \/ CommandSucceeds(t)
       /\ \A t \in Tasks :
            (PollFails(t) \/ CommandRefused(t)) => shades' = shades]_vars

\* A poll has failed over a cache that held a shade, and the cache is what it
\* was when the poll started.
C28_Witness ==
    \E t \in Tasks :
        /\ task[t].top = "poll" /\ task[t].pc = "idle"
        /\ task[t].ret \in {"UpdateFailed", "ConfigEntryAuthFailed"}
        /\ shades # << >>
        /\ task[t].before.shades = shades

\* The hub answers the poll's shade fetch 401.
FetchUnauthorized(t) ==
    /\ task[t].top = "poll"
    /\ task[t].fn = "_get_shades"
    /\ Respond(t, "401", NoBody)

\* The hub answered the poll's ping 401 and now refuses the login.
PingLoginRefused(t) ==
    /\ task[t].top = "poll"
    /\ task[t].fn = "ping"
    /\ LoginRespond(t, "http_err")

InPing(t) == task[t].top = "ping" /\ task[t].pc # "idle"

PingReturns(t, r) == task'[t].pc = "idle" /\ task'[t].ret = r

\* C30: ping() ends with True or False and nothing else: True when the hub
\* answers 200; when it answers 401, True exactly when the login that follows
\* completes without error (at once, on a key still valid, or by an accepted
\* login request); False for any other status; and False with the cached key
\* cleared when the request fails to connect or times out.
C30_PingReportsBool ==
    [][\A t \in Tasks :
          InPing(t)
          => /\ task'[t].pc = "idle" => task'[t].ret \in {"True", "False"}
             /\ (\E o \in {"ok", "empty"} : Respond(t, o, NoBody)) => PingReturns(t, "True")
             /\ (Respond(t, "401", NoBody) /\ task'[t].pc = "idle") => PingReturns(t, "True")
             /\ (\E a \in {"ok_key", "ok_nokey"} : LoginRespond(t, a)) => PingReturns(t, "True")
             /\ (\E a \in {"http_err", "conn"} : LoginRespond(t, a)) => PingReturns(t, "False")
             /\ (\E o \in {"404", "500"} : Respond(t, o, NoBody)) => PingReturns(t, "False")
             /\ (\E o \in {"conn", "timeout"} : Respond(t, o, NoBody))
                    => (PingReturns(t, "False") /\ auth_key' = "None")]_vars

\* A ping answered 401 has ended False on a refused login.
C30_Witness ==
    \E t \in Tasks :
        /\ task[t].top = "ping" /\ task[t].pc = "idle" /\ task[t].ret = "False"
        /\ task[t].loginAns = "http_err"

\* The poll of task t sends its GET /shades request in this step.
FetchIssued(t) ==
    /\ task'[t].top = "poll"
    /\ task'[t].fn = "_get_shades"
    /\ task'[t].pc = "req"
    /\ task[t].fn # "_get_shades" \/ task[t].top # "poll"

\* The ping of the poll of task t reports success in this step.
PingReportsTrue(t) ==
    /\ task[t].top = "poll"
    /\ task[t].fn = "ping"
    /\ \/ \E o \in {"ok", "empty", "401"} : Respond(t, o, NoBody)
       \/ \E a \in {"ok_key", "ok_nokey"} : LoginRespond(t, a)
       \/ LoginAcquire(t)

\* The ping of the poll of task t reports failure in this step.
PingReportsFalse(t) ==
    /\ task[t].top = "poll"
    /\ task[t].fn = "ping"
    /\ \/ \E o \in {"404", "500", "conn", "timeout"} : Respond(t, o, NoBody)
       \/ \E a \in {"http_err", "conn"} : LoginRespond(t, a)

\* C31: a poll sends its shade fetch only in the step in which its own ping,
\* sent before, reports success; the step in which the ping reports failure
\* ends the poll with no fetch sent.
C31_PingBeforeFetch ==
    [][\A t \in Tasks :
          /\ FetchIssued(t) => PingReportsTrue(t)
          /\ PingReportsFalse(t)
                => (task'[t].pc = "idle" /\ task'[t].fn = "ping"
                        /\ task'[t].ret = "UpdateFailed")]_vars

\* A poll has ended on a ping answered with an error status: it never got to
\* the fetch.
C31_Witness ==
    \E t \in Tasks :
        /\ task[t].top = "poll" /\ task[t].pc = "idle"
        /\ task[t].fn = "ping" /\ task[t].last = "500"
        /\ task[t].ret = "UpdateFailed"

\* The get_shade call that opens set_position ends in this step.
ReadEnds(t) ==
    /\ task[t].top = "set_position"
    /\ task[t].fn = "_get_shade"
    /\ task[t].pc # "idle"
    /\ task'[t].pc = "idle" \/ task'[t].fn # "_get_shade"

WriteSent(t) == task'[t].fn = "_set_position" /\ task'[t].pc = "req"

\* C32: set_position whose read of the shade reports that there is no such
\* shade (a 404, or a body without shades) returns False with no write sent;
\* when the read ends in an error instead, the write is sent all the same.
C32_WriteUnlessMissing ==
    [][\A t \in Tasks :
          ReadEnds(t)
          => /\ task'[t].last \in {"empty", "404"}
                    => (task'[t].pc = "idle" /\ task'[t].ret = "False"
                            /\ task'[t].fn = "_get_shade")
             /\ task'[t].last \notin {"ok", "empty", "404"} => WriteSent(t)]_vars

\* The write of a set_position is in flight after a read that failed on a
\* server error.
C32_Witness ==
    \E t \in Tasks :
        /\ task[t].top = "set_position"
        /\ task[t].fn = "_set_position" /\ task[t].pc = "req"
        /\ task[t].execs = 1
        /\ task[t].last = "500"

\* Task t is inside a client method that goes through _execute_with_retry.
InWrapperCall(t) == task[t].top \in WrapperOps /\ task[t].pc # "idle"

\* C33: with every request answered, a call through the retry wrapper ends,
\* and at no point has one wrapper run executed its operation, or called
\* login(), more than MAX_RETRIES + 1 times.
C33_WrapperTerminates ==
    /\ [](\A t \in Tasks :
            task[t].top \in WrapperOps
            => /\ task[t].execs <= MAX_RETRIES + 1
               /\ task[t].retries <= MAX_RETRIES + 1
               /\ task[t].logins <= MAX_RETRIES + 1)
    /\ \A t \in Tasks : InWrapperCall(t) ~> task[t].pc = "idle"

\* A wrapper call has ended after MAX_RETRIES + 1 executions and as many
\* login requests.
C33_Witness ==
    \E t \in Tasks :
        /\ task[t].top \in WrapperOps /\ task[t].pc = "idle"
        /\ task[t].execs = MAX_RETRIES + 1
        /\ task[t].logins = MAX_RETRIES + 1

\* The login run by the retry wrapper of task t fails to reach the hub.
ReloginUnreachable(t) ==
    /\ task[t].fn \in WrappedFns
    /\ LoginRespond(t, "conn")

PollCompleted(t) == task[t].top = "poll" /\ task[t].pc = "idle"

\* C35: with a poll completed, in success or in any failure, a
\* consecutive-failure counter at or above max_connection_errors means
\* is_connected is false.
C35_CounterAtThresholdDisconnects ==
    \A t \in Tasks :
        (PollCompleted(t) /\ connection_errors >= max_connection_errors)
        => ~is_connected

\* A poll that started connected has ended with the counter at the
\* threshold and the coordinator disconnected.
C35_Witness ==
    \E t \in Tasks :
        /\ PollCompleted(t)
        /\ task[t].before.connected
        /\ connection_errors >= max_connection_errors
        /\ ~is_connected

\* C36: at every moment the ids in the cache are the ids of the list the
\* last successful poll fetched (none before the first one), whatever
\* commands ran or are running; and a command, also one whose shade a poll
\* dropped while it was waiting for the hub, ends with True or False.
C36_CachedIdsFromLastPoll ==
    /\ DOMAIN shades = polled_ids
    /\ \A t \in Tasks :
            (task[t].top \in Commands /\ task[t].pc = "idle")
            => task[t].ret \in {"True", "False"}

\* A command has returned True for a shade that a poll, completed while the
\* command was waiting for the hub, dropped from the cache.
C36_Witness ==
    /\ PollDone(1)
    /\ task[2].top \in Commands /\ task[2].pc = "idle" /\ task[2].ret = "True"
    /\ task[2].arg \in ShadeIds
    /\ task[2].arg \notin DOMAIN shades

\* What set_shade_position(shade_id, position) sends to the client, and what
\* it writes into the cache when the client returns True.
SentPosition(position) == convert_position_from_ha(position)
OptimisticPosition(position) ==
    PatchedPosition([task |-> <<[top |-> "set_shade_position", pos |-> position]>>], 1)

\* C37: for every percentage p in 0..100, convert_position_to_ha of
\* convert_position_from_ha(p) is p again, so what set_shade_position(p)
\* writes into the cache is what a poll stores for a hub that reports the
\* position sent.
C37_PercentSurvivesRoundTrip ==
    \A t \in FromHaCalls :
        task[t].arg \in HA_CLOSED_VALUE .. HA_OPEN_VALUE
        => /\ convert_position_to_ha(task[t].pos) = task[t].arg
           /\ task[t].pos = SentPosition(task[t].arg)
           /\ OptimisticPosition(task[t].arg) = convert_position_to_ha(SentPosition(task[t].arg))

\* 70 per cent is the tie 45874.5, sent as 45874, which is 69.9992 per cent
\* and comes back as 70.
C37_Witness ==
    \E t \in FromHaCalls :
        /\ task[t].arg = 70
        /\ task[t].pos = 45874
        /\ OptimisticPosition(70) = 70
        /\ convert_position_to_ha(45874) = 70

\* Task t serves a set-cover-position request of a cover entity.
EntityRequest(t) == task[t].top \in {"set_shade_position", "async_set_cover_position"}

\* C38: whichever cover entity took the set-cover-position request for the
\* percentage p, the write request that goes to the hub for it carries
\* convert_position_from_ha(p).
C38_ConvertedExactlyOnce ==
    \A t \in Tasks :
        (EntityRequest(t) /\ PositionWriteInFlight(t)
            /\ task[t].pos \in HA_CLOSED_VALUE .. HA_OPEN_VALUE)
        => PositionSent(World, t) = convert_position_from_ha(task[t].pos)

\* No setup or unload is under way.
SetupsQuiet ==
    \A t \in Tasks :
        task[t].top \in {"async_setup_entry", "async_unload_entry"} => task[t].pc = "idle"

\* C39: with every setup and unload that was started completed, the shade
\* services are registered exactly when a coordinator is stored.
C39_ServicesIffCoordinator ==
    SetupsQuiet => (services <=> hass_data # {})
====
